---- MODULE Spec2Model ----
(***************************************************************************)
(* CSR to-be-signed (TBS) template generation, src/src/csr_rustcrypto.rs.  *)
(*                                                                         *)
(* A CsrTemplateBuilder collects extension declarations, tbs_template      *)
(* generates a key pair, encodes and signs a PKCS#10 request, writes it to  *)
(* "cert.der", extracts the to-be-signed region and resolves every pending *)
(* parameter (locate its needle, zero its range) in declaration order.     *)
(*                                                                         *)
(* Bytes are integers 0..255 and byte strings are sequences of bytes.      *)
(* Option<T> is a sequence of length 0 (None) or 1 (Some).                 *)
(***************************************************************************)
EXTENDS Integers, Sequences, FiniteSets

(***************************************************************************)
(* Bounds of the model.                                                    *)
(***************************************************************************)
\* configuration calls made on one builder before tbs_template
MaxDecls == 2
\* bytes of an encoded public key (2592 for ML-DSA-87)
PkLen == 2
\* bytes of a digest (32 for SHA-256)
DigestLen == 1

Builders == {1, 2}

None == <<>>
Some(v) == <<v>>

RECURSIVE SumRange(_, _, _)
SumRange(s, lo, hi) ==
    IF lo > hi THEN 0
    ELSE IF lo = hi THEN s[lo]
    ELSE LET mid == (lo + hi) \div 2
         IN SumRange(s, lo, mid) + SumRange(s, mid + 1, hi)

Sum(s) == SumRange(s, 1, Len(s))

RECURSIVE Flatten(_)
Flatten(ss) == IF ss = <<>> THEN <<>> ELSE Head(ss) \o Flatten(Tail(ss))

(***************************************************************************)
(* Inputs.                                                                 *)
(***************************************************************************)
\* what the key generator can return: a key pair is identified by its
\* encoded public key, any PkLen bytes
KeyBytes == {0, 255}
Keys == [1..PkLen -> KeyBytes]

\* UEID byte strings a caller passes: the empty slice, zero and 0xFF runs
\* (the tests pass [0xFF; 17]) and a string of small integers
Ueids == {<<>>, <<0, 0>>, <<255, 255>>, <<2, 1>>}
\* path_len: u32
PathLens == {5, 256}
\* KeyUsage flag bytes: keyCertSign, digitalSignature | keyCertSign
KeyUsages == {4, 132}
\* subject common names, as ASCII: "I", "FMC"
SubjectCns == {<<73>>, <<70, 77, 67>>}

\* the inputs of the parallel runs
ParUeids == {<<0, 0>>}
ParPathLens == {5}
ParKeyUsages == {4}
ParSubjectCns == {<<73>>}

(***************************************************************************)
(* DER encoding, as done by the x509_cert / der crates.                    *)
(***************************************************************************)
DerLen(n) ==
    IF n < 128 THEN <<n>>
    ELSE IF n < 256 THEN <<129, n>>
    ELSE <<130, n \div 256, n % 256>>

Tlv(tag, content) == <<tag>> \o DerLen(Len(content)) \o content

DerSequence(content) == Tlv(48, content)
DerSet(content) == Tlv(49, content)
DerOid(arcs) == Tlv(6, arcs)
DerOctetString(bytes) == Tlv(4, bytes)
\* a BIT STRING with no unused bits
DerBitString(bytes) == Tlv(3, <<0>> \o bytes)
DerBoolean(v) == Tlv(1, IF v THEN <<255>> ELSE <<0>>)
\* INTEGER of an unsigned 8-bit value: a leading zero keeps it positive
DerUint8(v) == Tlv(2, IF v < 128 THEN <<v>> ELSE <<0, v>>)

OID_CN == <<85, 4, 3>>
OID_SERIAL_NUMBER == <<85, 4, 5>>
OID_BASIC_CONSTRAINTS == <<85, 29, 19>>
OID_KEY_USAGE == <<85, 29, 15>>
OID_TCG_UEID == <<103, 129, 5, 5, 4, 4>>
OID_EXTENSION_REQ == <<42, 134, 72, 134, 247, 13, 1, 9, 14>>
OID_ML_DSA_87 == <<96, 134, 72, 1, 101, 3, 4, 3, 19>>

\* BasicConstraints ::= SEQUENCE { cA BOOLEAN DEFAULT FALSE, pathLen INTEGER OPTIONAL }
EncodeBasicConstraints(bc) ==
    DerSequence((IF bc.ca THEN DerBoolean(TRUE) ELSE <<>>)
                \o DerUint8(bc.path_len_constraint))

\* TcgUeid ::= SEQUENCE { ueid OCTET STRING }
EncodeTcgUeid(u) == DerSequence(DerOctetString(u.ueid))

\* Extension ::= SEQUENCE { extnID, critical BOOLEAN DEFAULT FALSE, extnValue }
EncodeExtension(e) ==
    DerSequence(DerOid(e.extn_id)
                \o (IF e.critical THEN DerBoolean(TRUE) ELSE <<>>)
                \o DerOctetString(e.extn_value))

\* AsExtension::to_extension for the two declared extension types
BasicConstraintsExtension(bc) ==
    [extn_id |-> OID_BASIC_CONSTRAINTS, critical |-> TRUE,
     extn_value |-> EncodeBasicConstraints(bc)]

TcgUeidExtension(u) ==
    [extn_id |-> OID_TCG_UEID, critical |-> TRUE,
     extn_value |-> EncodeTcgUeid(u)]

RECURSIVE EncodeExtensions(_)
EncodeExtensions(exts) ==
    IF exts = <<>> THEN <<>>
    ELSE EncodeExtension(Head(exts)) \o EncodeExtensions(Tail(exts))

\* one RDN holding one attribute: SET { SEQUENCE { type, value } }
EncodeRdn(oid, tag, value) == DerSet(DerSequence(DerOid(oid) \o Tlv(tag, value)))

\* Name::from_str("CN=<cn>,serialNumber=<sn>"): UTF8String CN, PrintableString SN
EncodeName(cn, sn) ==
    DerSequence(EncodeRdn(OID_CN, 12, cn) \o EncodeRdn(OID_SERIAL_NUMBER, 19, sn))

\* to_public_key_der: SubjectPublicKeyInfo { algorithm, subjectPublicKey }
EncodeSpki(pk) == DerSequence(DerSequence(DerOid(OID_ML_DSA_87)) \o DerBitString(pk))

\* SubjectPublicKeyInfo::from_der(..).subject_public_key.as_bytes(): the bit
\* string's bytes, after the two headers, the algorithm and the unused-bits byte
SpkiPublicKeyBytes(spki) ==
    LET algStart == 1 + Len(DerLen(Len(spki) - 2)) + 1
        algLen == spki[algStart + 1]
        bitStart == algStart + 2 + algLen
        bitLen == spki[bitStart + 1]
    IN SubSeq(spki, bitStart + 3, bitStart + 1 + bitLen)

\* CertReqInfo ::= SEQUENCE { version 0, subject, subjectPKInfo, attributes [0] }
\* with the single extensionRequest attribute the request builder adds
EncodeCertReqInfo(name, pk, exts) ==
    DerSequence(
        DerUint8(0)
        \o name
        \o EncodeSpki(pk)
        \o Tlv(160, DerSequence(DerOid(OID_EXTENSION_REQ)
                                 \o DerSet(DerSequence(EncodeExtensions(exts))))))

(***************************************************************************)
(* Signing backend and digest: deterministic stand-ins of the right shape. *)
(***************************************************************************)
\* Sha256::digest: DigestLen bytes that depend on every byte of the message
Sha256(msg) ==
    [i \in 1..DigestLen |-> (Sum(msg) * 7 + Len(msg) * 29 + i * 101 + 11) % 256]

HexDigitUpper(n) == IF n < 10 THEN 48 + n ELSE 55 + n

\* hex::encode(..).to_uppercase(): two ASCII hex digits per byte
HexEncodeUpper(bytes) ==
    Flatten([i \in 1..Len(bytes) |->
                <<HexDigitUpper(bytes[i] \div 16), HexDigitUpper(bytes[i] % 16)>>])

\* the signature of msg under the key pair with public key pk
Sign(pk, msg) == <<(Sum(pk) + Sum(msg)) % 256>>

\* CertReq ::= SEQUENCE { info, algorithm, signature BIT STRING }
EncodeCertReq(info, pk) ==
    DerSequence(info \o DerSequence(DerOid(OID_ML_DSA_87)) \o DerBitString(Sign(pk, info)))

(***************************************************************************)
(* Data model and offset resolver (crate::tbs).                            *)
(***************************************************************************)
\* the value a sanitized byte is overwritten with
Sentinel == 0

TbsParam_new(name, offset, len) == [name |-> name, offset |-> offset, len |-> len]

TbsTemplate_new(buf, ps) == [tbs |-> buf, params |-> ps]

\* bytes of the tag and length that start at index at (1-based)
HeaderLen(buf, at) ==
    IF buf[at + 1] < 128 THEN 2 ELSE IF buf[at + 1] = 129 THEN 3 ELSE 4

ContentLen(buf, at) ==
    IF buf[at + 1] < 128 THEN buf[at + 1]
    ELSE IF buf[at + 1] = 129 THEN buf[at + 2]
    ELSE buf[at + 2] * 256 + buf[at + 3]

\* the to-be-signed region: the first element inside the outer SEQUENCE,
\* header included; the signature algorithm and signature are dropped
get_tbs(encoded) ==
    LET start == 1 + HeaderLen(encoded, 1)
        total == HeaderLen(encoded, start) + ContentLen(encoded, start)
    IN SubSeq(encoded, start, start + total - 1)

\* 0-based offsets at which needle occurs in haystack
Occurrences(needle, haystack) ==
    {off \in 0..(Len(haystack) - Len(needle)) :
        SubSeq(haystack, off + 1, off + Len(needle)) = needle}

NeedleFound(needle, haystack) == Occurrences(needle, haystack) # {}

\* position of the first occurrence, scanning in ascending byte order
locate(needle, haystack) ==
    CHOOSE off \in Occurrences(needle, haystack) :
        \A other \in Occurrences(needle, haystack) : off <= other

\* the param with its offset resolved; fails when the needle is absent
init_param(needle, haystack, param) ==
    [param EXCEPT !.offset = locate(needle, haystack)]

\* the buffer with the param's range overwritten by the sentinel
sanitize(param, buf) ==
    [i \in 1..Len(buf) |->
        IF param.offset < i /\ i <= param.offset + param.len THEN Sentinel ELSE buf[i]]

(***************************************************************************)
(* CsrTemplateBuilder.                                                     *)
(***************************************************************************)
CsrTemplateParam(tbs_param, needle) == [tbs_param |-> tbs_param, needle |-> needle]

\* `path_len as u8`
PathLenAsU8(path_len) == path_len % 256

\* the extensions tbs_template hands to the request builder
RequestExtensions(bc, ku, ueid) ==
    (IF bc # None THEN <<BasicConstraintsExtension(bc[1])>> ELSE <<>>)
    \o (IF ueid # None THEN <<TcgUeidExtension(ueid[1])>> ELSE <<>>)

\* the pending params once tbs_template has pushed its own two
PendingParams(declared, pk_bytes, key_hash) ==
    declared
    \o <<CsrTemplateParam(TbsParam_new("PUBLIC_KEY", 0, Len(pk_bytes)), pk_bytes),
         CsrTemplateParam(TbsParam_new("SUBJECT_SN", 0, Len(key_hash)), key_hash)>>

\* the i-th element of the list iterated from its end
NextPending_Reversed(ps, i) == ps[Len(ps) + 1 - i]
\* the i-th element self.params.iter() yields
NextPending(ps, i) == ps[i]

\* the map closure with the sanitize call left out
ResolveOne_NoSanitize(p, buf) ==
    [param |-> init_param(p.needle, buf, p.tbs_param), tbs |-> buf]
\* the map closure: sanitize(init_param(&p.needle, &tbs, p.tbs_param), &mut tbs)
ResolveOne(p, buf) ==
    LET q == init_param(p.needle, buf, p.tbs_param)
    IN [param |-> q, tbs |-> sanitize(q, buf)]

VARIABLES
    basic_constraints,  \* per builder: Option<BasicConstraints>
    key_usage,          \* per builder: Option<KeyUsage>
    tcg_ueid,           \* per builder: Option<TcgUeid>
    params,             \* per builder: Vec<CsrTemplateParam>
    decls,              \* per builder: the configuration calls made, in order
    pc,                 \* per builder: position in the builder's life
    subject_cn,         \* per builder: argument of tbs_template
    key,                \* per builder: the generated key pair's public key
    extensions,         \* per builder: extensions added to the RequestBuilder
    der,                \* per builder: the encoded, signed request
    tbs,                \* per builder: working copy of the TBS bytes
    resolved,           \* per builder: params collected so far
    template,           \* per builder: Option<TbsTemplate>, the return value
    fs,                 \* file system: path -> content
    writers             \* file system: path -> builders whose call wrote it

vars == <<basic_constraints, key_usage, tcg_ueid, params, decls, pc, subject_cn,
          key, extensions, der, tbs, resolved, template, fs, writers>>

builder_vars == <<basic_constraints, key_usage, tcg_ueid, params, decls>>
run_vars == <<subject_cn, key, extensions, der, tbs, resolved, template>>
fs_vars == <<fs, writers>>

Paths == {"cert.der"}

\* CsrTemplateBuilder::new() for every builder, and no file written yet
Init ==
    /\ basic_constraints = [b \in Builders |-> None]
    /\ key_usage = [b \in Builders |-> None]
    /\ tcg_ueid = [b \in Builders |-> None]
    /\ params = [b \in Builders |-> <<>>]
    /\ decls = [b \in Builders |-> <<>>]
    /\ pc = [b \in Builders |-> "builder"]
    /\ subject_cn = [b \in Builders |-> <<>>]
    /\ key = [b \in Builders |-> <<>>]
    /\ extensions = [b \in Builders |-> <<>>]
    /\ der = [b \in Builders |-> <<>>]
    /\ tbs = [b \in Builders |-> <<>>]
    /\ resolved = [b \in Builders |-> <<>>]
    /\ template = [b \in Builders |-> None]
    /\ fs = [p \in Paths |-> <<>>]
    /\ writers = [p \in Paths |-> {}]

CanDeclare(b) == pc[b] = "builder" /\ Len(decls[b]) < MaxDecls

Call(op, arg) == [op |-> op, arg |-> arg]

add_basic_constraints_ext(b, ca, path_len) ==
    /\ CanDeclare(b)
    /\ basic_constraints' = [basic_constraints EXCEPT ![b] =
            Some([ca |-> ca, path_len_constraint |-> PathLenAsU8(path_len)])]
    /\ decls' = [decls EXCEPT ![b] =
            Append(@, Call("add_basic_constraints_ext", <<IF ca THEN 1 ELSE 0, path_len>>))]
    /\ UNCHANGED <<key_usage, tcg_ueid, params, pc, run_vars, fs_vars>>

add_key_usage_ext(b, usage) ==
    /\ CanDeclare(b)
    /\ key_usage' = [key_usage EXCEPT ![b] = Some(usage)]
    /\ decls' = [decls EXCEPT ![b] = Append(@, Call("add_key_usage_ext", <<usage>>))]
    /\ UNCHANGED <<basic_constraints, tcg_ueid, params, pc, run_vars, fs_vars>>

add_ueid_ext(b, ueid) ==
    /\ CanDeclare(b)
    /\ tcg_ueid' = [tcg_ueid EXCEPT ![b] = Some([ueid |-> ueid])]
    /\ params' = [params EXCEPT ![b] =
            Append(@, CsrTemplateParam(TbsParam_new("UEID", 0, Len(ueid)), ueid))]
    /\ decls' = [decls EXCEPT ![b] = Append(@, Call("add_ueid_ext", ueid))]
    /\ UNCHANGED <<basic_constraints, key_usage, pc, run_vars, fs_vars>>

\* tbs_template up to the encoded request: key generation, the two params
\* of the key, the subject name, the extensions, build and to_der
tbs_template_encode(b, cn, k) ==
    /\ pc[b] = "builder"
    /\ LET pk_der == EncodeSpki(k)
           pk_bytes == SpkiPublicKeyBytes(pk_der)
           key_hash == HexEncodeUpper(Sha256(pk_bytes))
           name == EncodeName(cn, key_hash)
           exts == RequestExtensions(basic_constraints[b], key_usage[b], tcg_ueid[b])
       IN /\ params' = [params EXCEPT ![b] = PendingParams(@, pk_bytes, key_hash)]
          /\ extensions' = [extensions EXCEPT ![b] = exts]
          /\ der' = [der EXCEPT ![b] = EncodeCertReq(EncodeCertReqInfo(name, k, exts), k)]
    /\ subject_cn' = [subject_cn EXCEPT ![b] = cn]
    /\ key' = [key EXCEPT ![b] = k]
    /\ pc' = [pc EXCEPT ![b] = "encoded"]
    /\ UNCHANGED <<basic_constraints, key_usage, tcg_ueid, decls, tbs, resolved,
                   template, fs_vars>>

\* std::fs::write("cert.der", &der), then get_tbs(der)
tbs_template_write(b) ==
    /\ pc[b] = "encoded"
    /\ fs' = [fs EXCEPT !["cert.der"] = der[b]]
    /\ writers' = [writers EXCEPT !["cert.der"] = @ \cup {b}]
    /\ tbs' = [tbs EXCEPT ![b] = get_tbs(der[b])]
    /\ pc' = [pc EXCEPT ![b] = "resolving"]
    /\ UNCHANGED <<builder_vars, subject_cn, key, extensions, der, resolved, template>>

\* one step of the iterator: the next pending param is located and its range
\* sanitized; an absent needle aborts the call (init_param unwraps)
tbs_template_resolve(b) ==
    /\ pc[b] = "resolving"
    /\ Len(resolved[b]) < Len(params[b])
    /\ LET p == NextPending(params[b], Len(resolved[b]) + 1)
       IN IF NeedleFound(p.needle, tbs[b])
          THEN /\ resolved' = [resolved EXCEPT ![b] = Append(@, ResolveOne(p, tbs[b]).param)]
               /\ tbs' = [tbs EXCEPT ![b] = ResolveOne(p, tbs[b]).tbs]
               /\ pc' = pc
          ELSE /\ pc' = [pc EXCEPT ![b] = "panicked"]
               /\ UNCHANGED <<resolved, tbs>>
    /\ UNCHANGED <<builder_vars, subject_cn, key, extensions, der, template, fs_vars>>

\* TbsTemplate::new(tbs, params)
tbs_template_return(b) ==
    /\ pc[b] = "resolving"
    /\ Len(resolved[b]) = Len(params[b])
    /\ template' = [template EXCEPT ![b] = Some(TbsTemplate_new(tbs[b], resolved[b]))]
    /\ pc' = [pc EXCEPT ![b] = "done"]
    /\ UNCHANGED <<builder_vars, subject_cn, key, extensions, der, tbs, resolved, fs_vars>>

\* one builder, any input
Next ==
    \/ \E ca \in BOOLEAN, path_len \in PathLens : add_basic_constraints_ext(1, ca, path_len)
    \/ \E usage \in KeyUsages : add_key_usage_ext(1, usage)
    \/ \E ueid \in Ueids : add_ueid_ext(1, ueid)
    \/ \E cn \in SubjectCns, k \in Keys : tbs_template_encode(1, cn, k)
    \/ tbs_template_write(1)
    \/ tbs_template_resolve(1)
    \/ tbs_template_return(1)

Spec == Init /\ [][Next]_vars

\* two builders whose calls interleave, as in a parallel test run
NextPar ==
    \E b \in Builders :
        \/ \E path_len \in ParPathLens : add_basic_constraints_ext(b, TRUE, path_len)
        \/ \E usage \in ParKeyUsages : add_key_usage_ext(b, usage)
        \/ \E ueid \in ParUeids : add_ueid_ext(b, ueid)
        \/ \E cn \in ParSubjectCns, k \in Keys : tbs_template_encode(b, cn, k)
        \/ tbs_template_write(b)
        \/ tbs_template_resolve(b)
        \/ tbs_template_return(b)

SpecPar == Init /\ [][NextPar]_vars

(***************************************************************************)
(* Properties.                                                             *)
(***************************************************************************)
\* the byte indexes (1-based) of a param's range [offset, offset + len)
Range(p) == (p.offset + 1)..(p.offset + p.len)

Returned(b) == template[b] # None

T(b) == template[b][1]

Names(ps) == [i \in 1..Len(ps) |-> ps[i].name]

CallsOf(b, op) == {i \in 1..Len(decls[b]) : decls[b][i].op = op}

\* C1: in every returned template, every byte in every param's range
\* [offset, offset + length) is the zero sentinel.
C1_RangesSanitized ==
    \A b \in Builders :
        Returned(b) =>
            \A i \in 1..Len(T(b).params) :
                \A k \in Range(T(b).params[i]) : T(b).tbs[k] = 0

\* a template is returned in which a non-empty range that held non-zero
\* bytes in the extracted TBS region has been zeroed
C1_Witness ==
    \E b \in Builders :
        /\ Returned(b)
        /\ Len(T(b).params) >= 3
        /\ \E i \in 1..Len(T(b).params) :
              /\ T(b).params[i].len > 0
              /\ \A k \in Range(T(b).params[i]) : get_tbs(der[b])[k] # 0

\* C2: in every returned template, the byte ranges of two distinct params
\* have no byte in common.
C2_RangesDisjoint ==
    \A b \in Builders :
        Returned(b) =>
            \A i, j \in 1..Len(T(b).params) :
                i # j => Range(T(b).params[i]) \cap Range(T(b).params[j]) = {}

\* buf with bytes written at offset (0-based)
WriteAt(buf, offset, bytes) ==
    [k \in 1..Len(buf) |->
        IF offset < k /\ k <= offset + Len(bytes) THEN bytes[k - offset] ELSE buf[k]]

\* buf after the needles of params i..Len(ps) were written back, in list order
RECURSIVE WriteBack(_, _, _, _)
WriteBack(buf, ps, needles, i) ==
    IF i > Len(ps) THEN buf
    ELSE WriteBack(WriteAt(buf, ps[i].offset, needles[i]), ps, needles, i + 1)

Needles(b) == [i \in 1..Len(params[b]) |-> params[b][i].needle]

C4_StructuralDeterminism ==
    \A b1, b2 \in Builders :
        (/\ Returned(b1)
         /\ Returned(b2)
         /\ decls[b1] = decls[b2]
         /\ subject_cn[b1] = subject_cn[b2])
        => /\ Len(T(b1).tbs) = Len(T(b2).tbs)
           /\ T(b1).params = T(b2).params

ExtensionOidOf(op) ==
    CASE op = "add_basic_constraints_ext" -> OID_BASIC_CONSTRAINTS
      [] op = "add_key_usage_ext" -> OID_KEY_USAGE
      [] op = "add_ueid_ext" -> OID_TCG_UEID

\* C5: once the request is encoded, every extension declared on the builder
\* (basic constraints, key usage, UEID) is among those handed to the encoder.
C5_DeclaredExtensionsEncoded ==
    \A b \in Builders :
        pc[b] # "builder" =>
            \A i \in 1..Len(decls[b]) :
                \E j \in 1..Len(extensions[b]) :
                    extensions[b][j].extn_id = ExtensionOidOf(decls[b][i].op)

\* C6: no configuration call is accepted twice on one builder, so a builder
\* never holds two pending params named UEID and no template has two.
C6_NoDuplicateDeclaration ==
    \A b \in Builders :
        /\ \A op \in {"add_basic_constraints_ext", "add_key_usage_ext", "add_ueid_ext"} :
              Cardinality(CallsOf(b, op)) <= 1
        /\ Cardinality({i \in 1..Len(params[b]) : params[b][i].tbs_param.name = "UEID"}) <= 1
        /\ Returned(b) =>
              Cardinality({i \in 1..Len(T(b).params) : T(b).params[i].name = "UEID"}) <= 1

\* C7: no location is written by two tbs_template calls, and the file a call
\* wrote holds what that call wrote, as it would had the call run alone.
C7_NoSharedWrites ==
    /\ \A p \in Paths : Cardinality(writers[p]) <= 1
    /\ \A b \in Builders : b \in writers["cert.der"] => fs["cert.der"] = der[b]

\* C8: every param of a returned template is a non-empty range inside the
\* template's bytes.
C8_RangesNonEmptyInBounds ==
    \A b \in Builders :
        Returned(b) =>
            \A i \in 1..Len(T(b).params) :
                /\ T(b).params[i].len > 0
                /\ T(b).params[i].offset + T(b).params[i].len <= Len(T(b).tbs)

\* the names of the pending params in declaration order: one UEID per
\* add_ueid_ext call, then the two tbs_template pushes
DeclaredNames(b) ==
    [i \in 1..Cardinality(CallsOf(b, "add_ueid_ext")) |-> "UEID"]
    \o <<"PUBLIC_KEY", "SUBJECT_SN">>

\* C9: params are resolved one at a time in declaration order against the one
\* working copy: the k-th collected param is the k-th pending one, every
\* collected range is already zero in the working copy when the next search
\* starts, and the returned list is the declaration-order list.
C9_DeclarationOrder ==
    \A b \in Builders :
        /\ Len(resolved[b]) <= Len(params[b])
        /\ \A i \in 1..Len(resolved[b]) :
              /\ resolved[b][i].name = params[b][i].tbs_param.name
              /\ resolved[b][i].len = Len(params[b][i].needle)
              /\ pc[b] = "resolving" => \A k \in Range(resolved[b][i]) : tbs[b][k] = 0
        /\ Returned(b) =>
              /\ T(b).params = resolved[b]
              /\ Names(T(b).params) = DeclaredNames(b)

\* a returned template whose params come in declaration order and not in
\* offset order: UEID first, at the highest offset
C9_Witness ==
    \E b \in Builders :
        /\ Returned(b)
        /\ Names(T(b).params) = <<"UEID", "PUBLIC_KEY", "SUBJECT_SN">>
        /\ T(b).params[1].offset > T(b).params[2].offset
        /\ T(b).params[2].offset > T(b).params[3].offset
        /\ T(b).params[1].len > 0

\* the path_len argument of the latest add_basic_constraints_ext call
LastPathLen(b) ==
    LET calls == CallsOf(b, "add_basic_constraints_ext")
        last == CHOOSE i \in calls : \A j \in calls : j <= i
    IN decls[b][last].arg[2]

\* C10: the recorded path length constraint equals the path_len argument.
C10_PathLenPreserved ==
    \A b \in Builders :
        basic_constraints[b] # None =>
            basic_constraints[b][1].path_len_constraint = LastPathLen(b)

====
